---- MODULE Spec2Model ----
(***************************************************************************)
(* A model of container/registry_tool.py: the one-image Docker V2 registry. *)
(*                                                                         *)
(* The process parses its arguments, constructs a DockerV2Registry (the    *)
(* manifest, its digest and the blob table), binds a socket, appends the   *)
(* image reference to the output file and then answers GET/HEAD requests   *)
(* one at a time (http.server.HTTPServer is a serial server).  `last' is   *)
(* the response to the request answered last.                              *)
(*                                                                         *)
(* Strings are TLA+ strings; bytes objects are strings too (all the data   *)
(* is ASCII).  sha256 is abstracted to a 15-bit rolling hash over the      *)
(* bytes, rendered as 4 lowercase hex characters.  The Server and Date     *)
(* headers that http.server adds to every response are left out.           *)
(***************************************************************************)
EXTENDS Integers, Sequences, FiniteSets, TLC

VARIABLES args, fs, pc, registry, outfile, last

vars == <<args, fs, pc, registry, outfile, last>>

(***************************************************************************)
(* Bounds of the model.                                                    *)
(***************************************************************************)
MaxLayerArgs == 4      \* longest flat layer argument list
MaxBlobSize == 1       \* largest blob content, in bytes

(***************************************************************************)
(* Program constants.                                                      *)
(***************************************************************************)
CONFIG_MEDIA_TYPE == "application/vnd.docker.container.image.v1+json"
DIFF_MEDIA_TYPE == "application/vnd.docker.image.rootfs.diff.tar"
MANIFEST_MEDIA_TYPE == "application/vnd.docker.distribution.manifest.v2+json"

OK == 200
NOT_FOUND == 404

(***************************************************************************)
(* String helpers (Python str methods and operators).                      *)
(***************************************************************************)
startswith(s, prefix) ==
    /\ Len(s) >= Len(prefix)
    /\ SubSeq(s, 1, Len(prefix)) = prefix

\* s.rpartition("/")[2]: what follows the last "/", or all of s without one.
rpartition(s) ==
    LET slashes == {i \in 1..Len(s) : SubSeq(s, i, i) = "/"}
    IN  IF slashes = {} THEN s
        ELSE LET i == CHOOSE k \in slashes : \A j \in slashes : j <= k
             IN  SubSeq(s, i + 1, Len(s))

Digits == "0123456789"

RECURSIVE str(_)
\* str(n) for a non-negative int: its decimal digits.
str(n) ==
    IF n < 10 THEN SubSeq(Digits, n + 1, n + 1)
    ELSE str(n \div 10) \o SubSeq(Digits, (n % 10) + 1, (n % 10) + 1)

\* os.path.normpath on a relative path: a leading "./" is dropped.
normpath(p) ==
    IF startswith(p, "./") THEN SubSeq(p, 3, Len(p)) ELSE p

(***************************************************************************)
(* hashlib.sha256(data).hexdigest(), abstracted to a 15-bit rolling hash.  *)
(***************************************************************************)
Alphabet ==
    "abcdefghijklmnopqrstuvwxyzABCDEFGHIJKLMNOPQRSTUVWXYZ0123456789{}[]\":,/.+-_@ "

CodeOf ==
    [c \in {SubSeq(Alphabet, i, i) : i \in 1..Len(Alphabet)} |->
        CHOOSE i \in 1..Len(Alphabet) : SubSeq(Alphabet, i, i) = c]

HexDigits == "0123456789abcdef"

Hex(d) == SubSeq(HexDigits, d + 1, d + 1)

RECURSIVE RollingHash(_, _, _)
\* The hash of data[lo..hi] as a pair: h, the polynomial sum of the codes,
\* and p = 31^(hi - lo + 1); the halves are hashed apart and combined.
RollingHash(data, lo, hi) ==
    IF lo > hi THEN [h |-> 0, p |-> 1]
    ELSE IF lo = hi THEN [h |-> CodeOf[SubSeq(data, lo, lo)], p |-> 31]
    ELSE LET mid == (lo + hi) \div 2
             l == RollingHash(data, lo, mid)
             r == RollingHash(data, mid + 1, hi)
         IN  [h |-> (l.h * r.p + r.h) % 32749, p |-> (l.p * r.p) % 32749]

sha256_hexdigest(data) ==
    LET r == RollingHash(data, 1, Len(data))
        h == (7 * r.p + r.h) % 32749
    IN  Hex(h \div 4096) \o Hex((h \div 256) % 16)
            \o Hex((h \div 16) % 16) \o Hex(h % 16)

(***************************************************************************)
(* json.dumps(obj, separators=(",", ":")).  A JSON value is tagged with    *)
(* its Python type; a dict keeps its items in insertion order.             *)
(***************************************************************************)
JInt(n) == [t |-> "int", v |-> n]
JStr(s) == [t |-> "str", v |-> s]
JDict(items) == [t |-> "dict", v |-> items]   \* items: sequence of <<key, value>>
JList(elems) == [t |-> "list", v |-> elems]

\* d[key] for a dict value.
Get(d, key) ==
    LET i == CHOOSE k \in 1..Len(d.v) : d.v[k][1] = key
    IN  d.v[i][2]

Keys(d) == [i \in 1..Len(d.v) |-> d.v[i][1]]

RECURSIVE json_dumps(_)
RECURSIVE dumps_items(_, _)
RECURSIVE dumps_elems(_, _)

dumps_items(items, i) ==
    IF i > Len(items) THEN ""
    ELSE (IF i > 1 THEN "," ELSE "")
            \o "\"" \o items[i][1] \o "\"" \o ":" \o json_dumps(items[i][2])
            \o dumps_items(items, i + 1)

dumps_elems(elems, i) ==
    IF i > Len(elems) THEN ""
    ELSE (IF i > 1 THEN "," ELSE "") \o json_dumps(elems[i])
            \o dumps_elems(elems, i + 1)

json_dumps(obj) ==
    CASE obj.t = "int" -> str(obj.v)
      [] obj.t = "str" -> "\"" \o obj.v \o "\""
      [] obj.t = "dict" -> "{" \o dumps_items(obj.v, 1) \o "}"
      [] obj.t = "list" -> "[" \o dumps_elems(obj.v, 1) \o "]"

(***************************************************************************)
(* The file system under the runfiles root.  A file is absent or holds     *)
(* data.  The program only reads it.                                       *)
(***************************************************************************)
NoFile == [exists |-> FALSE, data |-> ""]

File(data) == [exists |-> TRUE, data |-> data]

RECURSIVE Bytes(_)
\* a blob content of n bytes
Bytes(n) == IF n = 0 THEN "" ELSE "x" \o Bytes(n - 1)

BlobFiles == {"a", "b"}

DigestFiles == {"a.sha256", "b.sha256"}

\* what a digest file may hold: hex text written by the build system
DigestTexts == {"aa11", "bb22"}

BlobContents == {NoFile} \cup {File(Bytes(n)) : n \in 0..MaxBlobSize}

\* Naming the digest texts is free, so the first digest file holds the first.
FileSystems ==
    {f \in [BlobFiles \cup DigestFiles -> BlobContents \cup {File(d) : d \in DigestTexts}] :
        /\ f["a"] \in {NoFile, File(Bytes(MaxBlobSize))}
        /\ f["b"] \in BlobContents
        /\ f["a.sha256"] \in {NoFile, File("aa11")}
        /\ f["b.sha256"] \in {NoFile} \cup {File(d) : d \in DigestTexts}}

\* r.Rlocation(path): the runfile of that name (the file system is keyed by it).
Rlocation(path) == path

exists(path) == path \in DOMAIN fs /\ fs[path].exists

\* open(path).read()
read(path) == fs[path].data

\* os.path.getsize(path)
getsize(path) == Len(fs[path].data)

(***************************************************************************)
(* DockerV2Registry._blob: registers one blob and returns its reference.   *)
(* An exception (a missing file) is ok = FALSE.                            *)
(***************************************************************************)
_blob(blobs, media_type, blob_path, digest_path) ==
    IF ~exists(digest_path) \/ ~exists(blob_path)
    THEN [ok |-> FALSE, blobs |-> blobs, ref |-> JDict(<<>>)]
    ELSE LET digest == "sha256:" \o read(digest_path)
             size == getsize(blob_path)
         IN  [ok |-> TRUE,
              blobs |-> [d \in DOMAIN blobs \cup {digest} |->
                            IF d = digest THEN <<media_type, blob_path, size>>
                            ELSE blobs[d]],
              ref |-> JDict(<<
                  <<"mediaType", JStr(media_type)>>,
                  <<"digest", JStr(digest)>>,
                  <<"size", JInt(size)>> >>)]

RECURSIVE layer_loop_prepend(_, _, _, _)
\* variant: each layer reference is put in front of the earlier ones
layer_loop_prepend(blobs, refs, layers, i) ==
    IF 2 * i > Len(layers) THEN [ok |-> TRUE, blobs |-> blobs, refs |-> refs]
    ELSE LET layer_digest_path == layers[2 * i - 1]
             layer_path == layers[2 * i]
         IN  IF layer_digest_path # layer_path \o ".sha256"
             THEN [ok |-> FALSE, blobs |-> blobs, refs |-> refs]
             ELSE LET blob_data == _blob(blobs, DIFF_MEDIA_TYPE,
                                         Rlocation(normpath(layer_path)),
                                         Rlocation(normpath(layer_digest_path)))
                  IN  IF ~blob_data.ok
                      THEN [ok |-> FALSE, blobs |-> blobs, refs |-> refs]
                      ELSE layer_loop_prepend(blob_data.blobs,
                                              <<blob_data.ref>> \o refs,
                                              layers, i + 1)

RECURSIVE layer_loop(_, _, _, _)
\* for layer_digest_path, layer_path in zip(layers[::2], layers[1::2]): ...
\* i counts the pairs; a trailing unpaired argument is not visited by zip.
layer_loop(blobs, refs, layers, i) ==
    IF 2 * i > Len(layers) THEN [ok |-> TRUE, blobs |-> blobs, refs |-> refs]
    ELSE LET layer_digest_path == layers[2 * i - 1]
             layer_path == layers[2 * i]
         IN  IF layer_digest_path # layer_path \o ".sha256"
             THEN [ok |-> FALSE, blobs |-> blobs, refs |-> refs]
             ELSE LET blob_data == _blob(blobs, DIFF_MEDIA_TYPE,
                                         Rlocation(normpath(layer_path)),
                                         Rlocation(normpath(layer_digest_path)))
                  IN  IF ~blob_data.ok
                      THEN [ok |-> FALSE, blobs |-> blobs, refs |-> refs]
                      ELSE layer_loop(blob_data.blobs, Append(refs, blob_data.ref),
                                      layers, i + 1)

NoBlobs == [d \in {} |-> <<>>]

\* the value of `registry' while no DockerV2Registry exists
NoRegistry ==
    [built |-> FALSE, repo |-> "", registry_blobs |-> NoBlobs,
     manifest |-> JDict(<<>>), manifest_data |-> "", manifest_digest |-> ""]

\* variant: the digest of the manifest without its closing brace
manifest_digest_of_truncated(manifest_data) ==
    "sha256:" \o sha256_hexdigest(SubSeq(manifest_data, 1, Len(manifest_data) - 1))

manifest_digest_of(manifest_data) == "sha256:" \o sha256_hexdigest(manifest_data)

\* DockerV2Registry.__init__(repo, config_path, *layers)
DockerV2Registry(repo, config_path, layers) ==
    LET config == _blob(NoBlobs, CONFIG_MEDIA_TYPE,
                        Rlocation(normpath(config_path)),
                        Rlocation(normpath(config_path \o ".sha256")))
    IN  IF ~config.ok THEN NoRegistry
        ELSE LET loop == layer_loop(config.blobs, <<>>, layers, 1)
             IN  IF ~loop.ok THEN NoRegistry
                 ELSE LET manifest == JDict(<<
                              <<"schemaVersion", JInt(2)>>,
                              <<"mediaType", JStr(MANIFEST_MEDIA_TYPE)>>,
                              <<"config", config.ref>>,
                              <<"layers", JList(loop.refs)>> >>)
                          manifest_data == json_dumps(manifest)
                      IN  [built |-> TRUE, repo |-> repo,
                           registry_blobs |-> loop.blobs,
                           manifest |-> manifest,
                           manifest_data |-> manifest_data,
                           manifest_digest |-> manifest_digest_of(manifest_data)]

\* DockerV2Registry.image_ref
image_ref(reg) == reg.repo \o "@" \o reg.manifest_digest

(***************************************************************************)
(* _RegistryHandler.  A response is the status line, the headers the       *)
(* handler sent and the bytes written to wfile after the header block.     *)
(***************************************************************************)
Response(method, path, status, headers, body) ==
    [method |-> method, path |-> path, status |-> status,
     headers |-> headers, body |-> body]

\* no request answered yet
NoResponse == Response("", "", 0, <<>>, "")

\* variant: only the tag is matched, not the manifest digest
_is_manifest_latest_only(reg, path) ==
    path = "/v2/" \o reg.repo \o "/manifests/latest"

_is_manifest(reg, path) ==
    path \in {"/v2/" \o reg.repo \o "/manifests/latest",
              "/v2/" \o reg.repo \o "/manifests/" \o reg.manifest_digest}

\* the body http.server's send_error makes for a status code
error_content(code) == "<p>Error code: " \o str(code) \o "</p>"

\* BaseHTTPRequestHandler.send_error(code): the error headers, and the error
\* page unless the request is a HEAD.  The handler then calls end_headers()
\* once more, which writes the blank line "\r\n" again, after what was sent.
send_error_end_headers(method, path, code) ==
    Response(method, path, code,
             << <<"Connection", "close">>,
                <<"Content-Type", "text/html;charset=utf-8">>,
                <<"Content-Length", str(Len(error_content(code)))>> >>,
             (IF method = "HEAD" THEN "" ELSE error_content(code)) \o "\r\n")

\* variant: the copy stops one byte short
copyfileobj_short(path) ==
    IF Len(read(path)) = 0 THEN "" ELSE SubSeq(read(path), 1, Len(read(path)) - 1)

\* shutil.copyfileobj(open(path, "rb"), wfile)
copyfileobj(path) == read(path)

\* _RegistryHandler._send_blob(head), with self.path = path
_send_blob(reg, method, path) ==
    LET head == (method = "HEAD")
        digest == rpartition(path)
    IN  IF path = "/v2/"
        THEN Response(method, path, OK, <<>>, "")
        ELSE IF _is_manifest(reg, path)
        THEN Response(method, path, OK,
                      << <<"Content-Type", MANIFEST_MEDIA_TYPE>>,
                         <<"Content-Length", str(Len(reg.manifest_data))>> >>,
                      IF head THEN "" ELSE reg.manifest_data)
        ELSE IF /\ startswith(path, "/v2/" \o reg.repo \o "/blobs/sha256:")
                /\ digest \in DOMAIN reg.registry_blobs
        THEN LET media_type == reg.registry_blobs[digest][1]
                 blob_path == reg.registry_blobs[digest][2]
                 size == reg.registry_blobs[digest][3]
             IN  Response(method, path, OK,
                          << <<"Content-Type", media_type>>,
                             <<"Content-Length", str(size)>> >>,
                          IF head THEN "" ELSE copyfileobj(blob_path))
        ELSE send_error_end_headers(method, path, NOT_FOUND)

\* variant: a blob that was sent is dropped from the table
registry_after_pop(reg, method, path) ==
    IF /\ method = "GET"
       /\ startswith(path, "/v2/" \o reg.repo \o "/blobs/sha256:")
       /\ rpartition(path) \in DOMAIN reg.registry_blobs
    THEN [reg EXCEPT !.registry_blobs =
             [d \in DOMAIN reg.registry_blobs \ {rpartition(path)} |->
                 reg.registry_blobs[d]]]
    ELSE reg

\* What answering a request leaves of the registry the handler closes over:
\* _send_blob assigns to none of _repo, _manifest_data, _manifest_digest and
\* _registry_blobs.
registry_after(reg, method, path) == reg

(***************************************************************************)
(* The inputs.                                                             *)
(***************************************************************************)
Repos == {"lib/app"}

ConfigPaths == {"a", "./b"}

LayerArgs == {"a", "./b", "a.sha256", "./b.sha256"}

LayerLists == UNION {[1..n -> LayerArgs] : n \in 0..MaxLayerArgs}

Methods == {"GET", "HEAD"}

\* every digest string a digest file can give rise to, and one it cannot
Digests == {"sha256:" \o d : d \in DigestTexts \cup {"0000"}}

\* the request paths a client tries against a registry
RequestPaths(reg) ==
    {"/v2/", "/v2", "/v2/?n=1",
     "/v2/" \o reg.repo \o "/manifests/latest",
     "/v2/" \o reg.repo \o "/manifests/" \o reg.manifest_digest,
     "/v2/" \o reg.repo \o "/manifests/latest/",
     "/v2/" \o reg.repo \o "/manifests/v1",
     "/v2/" \o reg.repo \o "/manifests/sha256:aa11",
     "/v2/other/manifests/latest",
     "/v2/other/blobs/sha256:aa11",
     "/v2/" \o reg.repo \o "/blobs/",
     "/v2/" \o reg.repo \o "/blobs/sha256:aa11/extra",
     "/v2/" \o reg.repo \o "/blobs/sha256:0000/sha256:aa11"}
    \cup {"/v2/" \o reg.repo \o "/blobs/" \o d : d \in Digests}

\* the port the kernel picks for the bind to port 0
Ports == {49152}

(***************************************************************************)
(* The process.                                                            *)
(***************************************************************************)
Init ==
    /\ args \in {<<"out", repo, config_path>> \o layers :
                    repo \in Repos, config_path \in ConfigPaths, layers \in LayerLists}
    /\ fs \in FileSystems
    /\ pc = "start"
    /\ registry = NoRegistry
    /\ outfile = <<>>
    /\ last = NoResponse

\* variant: a failed construction is ignored
main_after_construct_ignore_error(reg) == "constructed"

\* where main goes after the constructor call: an exception ends the process
main_after_construct(reg) == IF reg.built THEN "constructed" ELSE "aborted"

\* registry = DockerV2Registry(*args[1:])
Construct ==
    /\ pc = "start"
    /\ LET reg == DockerV2Registry(args[2], args[3], SubSeq(args, 4, Len(args)))
       IN  /\ registry' = reg
           /\ pc' = main_after_construct(reg)
    /\ UNCHANGED <<args, fs, outfile, last>>

\* HTTPServer(("127.0.0.1", 0), ...), the TLS wrap, and the line appended to
\* the file args[0]; serve_forever() follows.
Publish ==
    /\ pc = "constructed"
    /\ \E port \in Ports :
          outfile' = Append(outfile,
                            "127.0.0.1:" \o str(port) \o "/" \o image_ref(registry))
    /\ pc' = "serving"
    /\ UNCHANGED <<args, fs, registry, last>>

\* one request answered by serve_forever(): do_GET or do_HEAD
Handle ==
    /\ pc = "serving"
    /\ \E method \in Methods, path \in RequestPaths(registry) :
          /\ last' = _send_blob(registry, method, path)
          /\ registry' = registry_after(registry, method, path)
    /\ UNCHANGED <<args, fs, pc, outfile>>

Next == Construct \/ Publish \/ Handle

Spec == Init /\ [][Next]_vars

(***************************************************************************)
(* Vocabulary of the properties.                                           *)
(***************************************************************************)
layers_arg == SubSeq(args, 4, Len(args))

LatestPath == "/v2/" \o registry.repo \o "/manifests/latest"

DigestPath == "/v2/" \o registry.repo \o "/manifests/" \o registry.manifest_digest

BlobPath(d) == "/v2/" \o registry.repo \o "/blobs/" \o d

Answered == last.method # ""

Header(resp, name) ==
    {resp.headers[i][2] : i \in {k \in 1..Len(resp.headers) : resp.headers[k][1] = name}}

\* the flat layer list is made of (digestPath, contentPath) pairs
WellPaired(layers) ==
    /\ Len(layers) % 2 = 0
    /\ \A i \in 1..(Len(layers) \div 2) : layers[2 * i - 1] = layers[2 * i] \o ".sha256"

\* the reference the manifest is to hold for the blob at a content path
ExpectedRef(media_type, content_path) ==
    JDict(<< <<"mediaType", JStr(media_type)>>,
             <<"digest", JStr("sha256:" \o fs[normpath(content_path) \o ".sha256"].data)>>,
             <<"size", JInt(Len(fs[normpath(content_path)].data))>> >>)

\* the canonical JSON text of a blob reference, field by field
CanonicalRef(media_type, content_path) ==
    "{\"mediaType\":\"" \o media_type
        \o "\",\"digest\":\"sha256:" \o fs[normpath(content_path) \o ".sha256"].data
        \o "\",\"size\":" \o str(Len(fs[normpath(content_path)].data)) \o "}"

RECURSIVE CanonicalLayers(_, _)
CanonicalLayers(layers, i) ==
    IF 2 * i > Len(layers) THEN ""
    ELSE (IF i > 1 THEN "," ELSE "") \o CanonicalRef(DIFF_MEDIA_TYPE, layers[2 * i])
            \o CanonicalLayers(layers, i + 1)

\* the canonical manifest text the inputs determine
CanonicalManifest ==
    "{\"schemaVersion\":2,\"mediaType\":\"" \o MANIFEST_MEDIA_TYPE
        \o "\",\"config\":" \o CanonicalRef(CONFIG_MEDIA_TYPE, args[3])
        \o ",\"layers\":[" \o CanonicalLayers(layers_arg, 1) \o "]}"

\* a file the construction reads is missing, or a pair is malformed
InputsRejected ==
    \/ ~exists(normpath(args[3])) \/ ~exists(normpath(args[3]) \o ".sha256")
    \/ \E i \in 1..(Len(layers_arg) \div 2) :
          \/ layers_arg[2 * i - 1] # layers_arg[2 * i] \o ".sha256"
          \/ ~exists(normpath(layers_arg[2 * i]))
          \/ ~exists(normpath(layers_arg[2 * i - 1]))

(***************************************************************************)
(* C1: a HEAD request and a GET request for the same path get the same     *)
(* status and the same headers, and the HEAD response carries no body, on   *)
(* every path, the 404 paths included.                                     *)
(***************************************************************************)
C1_HeadMatchesGet ==
    (pc = "serving" /\ last.method = "HEAD") =>
        LET get == _send_blob(registry, "GET", last.path)
        IN  /\ last.status = get.status
            /\ last.headers = get.headers
            /\ last.body = ""

(***************************************************************************)
(* C2: a GET of the manifest by the tag latest or by the manifest digest   *)
(* answers 200 with the manifest media type, the byte length of the        *)
(* manifest bytes, and a body equal to the manifest bytes, whose sha256 is *)
(* the manifest digest.                                                    *)
(***************************************************************************)
C2_ManifestRoutes ==
    (pc = "serving" /\ last.method = "GET" /\ last.path \in {LatestPath, DigestPath}) =>
        /\ last.status = 200
        /\ Header(last, "Content-Type") = {MANIFEST_MEDIA_TYPE}
        /\ Header(last, "Content-Length") = {str(Len(registry.manifest_data))}
        /\ Len(last.headers) = 2
        /\ last.body = registry.manifest_data
        /\ last.body = CanonicalManifest
        /\ "sha256:" \o sha256_hexdigest(last.body) = registry.manifest_digest

C2_Witness ==
    /\ pc = "serving" /\ last.method = "GET" /\ last.path = DigestPath
    /\ last.status = 200 /\ Len(layers_arg) >= 2

(***************************************************************************)
(* C3: a GET of /v2/{repo}/blobs/{d} for a key d of the blob table answers *)
(* 200 with that blob's media type and recorded size, and a body that is   *)
(* the bytes at the blob's content location, as long as the header says.   *)
(***************************************************************************)
C3_BlobRoute ==
    \A d \in DOMAIN registry.registry_blobs :
        (pc = "serving" /\ last.method = "GET" /\ last.path = BlobPath(d)) =>
            /\ last.status = 200
            /\ Header(last, "Content-Type") = {registry.registry_blobs[d][1]}
            /\ Header(last, "Content-Length") = {str(registry.registry_blobs[d][3])}
            /\ Len(last.headers) = 2
            /\ last.body = fs[registry.registry_blobs[d][2]].data
            /\ Len(last.body) = registry.registry_blobs[d][3]

C3_Witness ==
    /\ pc = "serving" /\ last.method = "GET" /\ last.status = 200
    /\ \E d \in DOMAIN registry.registry_blobs :
          /\ last.path = BlobPath(d)
          /\ registry.registry_blobs[d][1] = DIFF_MEDIA_TYPE
          /\ Len(last.body) > 0

(***************************************************************************)
(* C4: every GET or HEAD is answered 404 unless its path is exactly /v2/,  *)
(* one of the two manifest paths, or /v2/{repo}/blobs/{d} for a key d of   *)
(* the blob table.                                                         *)
(***************************************************************************)
C4_NotFoundElsewhere ==
    (pc = "serving" /\ Answered) =>
        (last.path \notin ({"/v2/", LatestPath, DigestPath}
                            \cup {BlobPath(d) : d \in DOMAIN registry.registry_blobs})
            => last.status = 404)

(***************************************************************************)
(* C5: the manifest digest is "sha256:" followed by the hex sha256 of the  *)
(* manifest bytes, which are the bytes served as the manifest body and are *)
(* the canonical text the inputs (digest-file contents and content sizes)  *)
(* determine.                                                              *)
(***************************************************************************)
C5_ManifestDigest ==
    /\ pc = "constructed" =>
          /\ registry.manifest_digest
                = "sha256:" \o sha256_hexdigest(registry.manifest_data)
          /\ registry.manifest_data = CanonicalManifest
    /\ (pc = "serving" /\ last = _send_blob(registry, "GET", LatestPath)) =>
          registry.manifest_digest = "sha256:" \o sha256_hexdigest(last.body)

C5_Witness ==
    /\ pc = "serving" /\ last.method = "GET" /\ last.path = LatestPath
    /\ Len(layers_arg) = 4 /\ layers_arg[2] # layers_arg[4]

(***************************************************************************)
(* C6: the manifest has schemaVersion 2, the manifest media type, one      *)
(* config reference and one layer reference per supplied pair, in the      *)
(* order supplied; each reference is {mediaType, digest, size} read from   *)
(* that blob's digest file and content.                                    *)
(***************************************************************************)
C6_ManifestShape ==
    registry.built =>
        LET m == registry.manifest
            n == Len(layers_arg) \div 2
        IN  /\ Keys(m) = <<"schemaVersion", "mediaType", "config", "layers">>
            /\ Get(m, "schemaVersion") = JInt(2)
            /\ Get(m, "mediaType") = JStr(MANIFEST_MEDIA_TYPE)
            /\ Get(m, "config") = ExpectedRef(CONFIG_MEDIA_TYPE, args[3])
            /\ Keys(Get(m, "config")) = <<"mediaType", "digest", "size">>
            /\ Len(Get(m, "layers").v) = n
            /\ \A i \in 1..n :
                  Get(m, "layers").v[i] = ExpectedRef(DIFF_MEDIA_TYPE, layers_arg[2 * i])

C6_Witness ==
    /\ pc = "constructed" /\ Len(layers_arg) = 4
    /\ Get(registry.manifest, "layers").v[1] # Get(registry.manifest, "layers").v[2]

(***************************************************************************)
(* C7: construction is rejected whenever the flat layer list is not made   *)
(* of (digestPath, contentPath) pairs with digestPath = contentPath +      *)
(* ".sha256".                                                              *)
(***************************************************************************)
C7_RejectsUnpaired ==
    registry.built => WellPaired(layers_arg)

(***************************************************************************)
(* C8: for the config reference and every layer reference of the manifest, *)
(* the blob table has an entry under the reference's digest with the       *)
(* reference's media type and size, the size being the byte length of that *)
(* blob's content, also when two blobs carry the same digest.              *)
(***************************************************************************)
C8_IndexMatchesManifest ==
    registry.built =>
        LET refs == <<Get(registry.manifest, "config")>>
                        \o Get(registry.manifest, "layers").v
            content_path(i) == IF i = 1 THEN args[3] ELSE layers_arg[2 * (i - 1)]
        IN  \A i \in 1..Len(refs) :
              LET d == Get(refs[i], "digest").v
              IN  /\ d \in DOMAIN registry.registry_blobs
                  /\ registry.registry_blobs[d][1] = Get(refs[i], "mediaType").v
                  /\ registry.registry_blobs[d][3] = Get(refs[i], "size").v
                  /\ registry.registry_blobs[d][3]
                        = Len(fs[normpath(content_path(i))].data)

(***************************************************************************)
(* C9: no request changes the registry, and the response to a request      *)
(* depends on its method and path only: the same request answered again    *)
(* gets the same response.                                                 *)
(***************************************************************************)
C9_RequestsReadOnly ==
    [][pc = "serving" =>
          /\ registry' = registry
          /\ (last'.method = last.method /\ last'.path = last.path) => last' = last]_vars

C9_Witness ==
    /\ pc = "serving" /\ last.method = "GET" /\ last.status = 200
    /\ \E d \in DOMAIN registry.registry_blobs :
          last.path = BlobPath(d) /\ registry.registry_blobs[d][1] = CONFIG_MEDIA_TYPE

(***************************************************************************)
(* C10: the address is published and requests are answered only after the *)
(* registry is completely constructed; when construction fails nothing is  *)
(* published and no request is answered.                                   *)
(***************************************************************************)
C10_ConstructBeforeServe ==
    /\ (outfile # <<>> \/ Answered \/ pc = "serving") =>
          /\ registry.built
          /\ ~InputsRejected
          /\ registry.manifest_digest # ""
          /\ Len(Get(registry.manifest, "layers").v) = Len(layers_arg) \div 2
    /\ Answered => outfile # <<>>
    /\ InputsRejected =>
          /\ pc \in {"start", "aborted"}
          /\ outfile = <<>>
          /\ ~Answered

C10_Witness ==
    /\ pc = "serving" /\ last.method = "HEAD" /\ last.path = "/v2/"
    /\ outfile # <<>> /\ Len(layers_arg) >= 2

C10_WitnessAborted ==
    pc = "aborted" /\ InputsRejected

====
